---------------------------- MODULE Spec2Model ----------------------------
(***************************************************************************)
(* A model of cpu.py, the single-shot system status report.                *)
(*                                                                         *)
(* The collectors are pure functions of the host state they read, so each  *)
(* is an operator computed the way its code computes it.  Two              *)
(* specifications use them:                                                *)
(*   Spec     - one collector is called on one host input drawn from a     *)
(*              bounded set, and its section of the report is rendered;    *)
(*   SpecMain - the whole program: the imports, main()'s eight sections in *)
(*              order, and the exception handlers of the __main__ block.   *)
(*                                                                         *)
(* Conventions.                                                            *)
(*   - A Python dict is a sequence of [k, v] pairs with distinct keys, in  *)
(*     insertion order; assigning to an existing key replaces its value in *)
(*     place (DictSet).                                                    *)
(*   - A call either returns, [ret |-> value], or raises, [exc |-> name].  *)
(*   - A float is an integer count of a fixed small unit (tenths of a      *)
(*     percent, hundredths of a degree); sizes are counted in MiB, so the  *)
(*     code's divisor 1024**3 bytes is 1024 MiB.  A formatted number       *)
(*     f"{x:.Nf}unit" is the record [num, dec, unit] holding x rounded to  *)
(*     N decimals; a literal string s is [text |-> s].                     *)
(***************************************************************************)
EXTENDS Integers, Sequences, FiniteSets, TLC

VARIABLES probe, host, phase, result, rendered, pc, out

vars == <<probe, host, phase, result, rendered, pc, out>>

(***************************************************************************)
(* Bounds of the model                                                     *)
(***************************************************************************)
MaxParts == 2

MaxReadings == 2

MaxAddrs == 3

MaxLines == 2

(***************************************************************************)
(* Python values                                                           *)
(***************************************************************************)
None == [none |-> TRUE]

Some(x) == [some |-> x]

IsNone(v) == "none" \in DOMAIN v

\* bool(v) of an optional number: None and 0 are falsy
Truthy(v) == ~IsNone(v) /\ v.some # 0

Return(v) == [ret |-> v]

Raise(e) == [exc |-> e]

Returned(r) == "ret" \in DOMAIN r

Raised(r) == "exc" \in DOMAIN r

Text(s) == [text |-> s]

NA == Text("N/A")

Keys(d) == {d[i].k : i \in 1..Len(d)}

Get(d, key) == d[CHOOSE i \in 1..Len(d) : d[i].k = key].v

DictSet(d, key, val) ==
    IF key \in Keys(d)
    THEN [i \in 1..Len(d) |-> IF d[i].k = key THEN [k |-> key, v |-> val] ELSE d[i]]
    ELSE Append(d, [k |-> key, v |-> val])

Dict1(key, val) == <<[k |-> key, v |-> val]>>

\* n/d rounded to the nearest integer (n >= 0, d > 0).  Python rounds the
\* binary float and this rounds the exact quotient half up; the two agree
\* except on ties, and no value of the model is a tie.
RoundDiv(n, d) == (2 * n + d) \div (2 * d)

\* f"{x:.Nf}unit" for x = n/d
Fmt(n, d, dec, unit) ==
    [num |-> RoundDiv(n * (IF dec = 2 THEN 100 ELSE 10), d), dec |-> dec, unit |-> unit]

\* 1024**3 bytes, in MiB
GIB == 1024

FmtGB(size) == Fmt(size, GIB, 2, " GB")

(***************************************************************************)
(* Host state read by the disk probes: psutil.disk_partitions() with, for  *)
(* each partition, what psutil.disk_usage(mountpoint) does when called.    *)
(***************************************************************************)
Devices == {"/dev/sda1", "/dev/sdb1"}

Mountpoints == {"/", "/data"}

Usage(total, used) == [kind |-> "ok", total |-> total, used |-> used, free |-> total - used]

UsageOutcomes ==
    { Usage(0, 0), Usage(3 * GIB, 1 * GIB), Usage(20 * GIB, 18 * GIB),
      Usage(20 * GIB, 19 * GIB) }
    \cup { [kind |-> "PermissionError"], [kind |-> "OSError"] }

Partitions ==
    { [device |-> d, mountpoint |-> m, fstype |-> "ext4", usage |-> u] :
        d \in Devices, m \in Mountpoints, u \in UsageOutcomes }

SeqsUpTo(S, n) == UNION { [1..m -> S] : m \in 0..n }

PartitionLists == SeqsUpTo(Partitions, MaxParts)

(***************************************************************************)
(* get_disk_info                                                           *)
(***************************************************************************)
PermissionDenied == Dict1("Status", Text("Permission denied"))

\* (partition_usage.used / partition_usage.total) * 100, in tenths of a percent
UsagePercent(u) == Fmt(u.used * 100, u.total, 1, "%")

DiskEntry(p) ==
    << [k |-> "Mountpoint", v |-> Text(p.mountpoint)],
       [k |-> "File System", v |-> Text(p.fstype)],
       [k |-> "Total Size", v |-> FmtGB(p.usage.total)],
       [k |-> "Used", v |-> FmtGB(p.usage.used)],
       [k |-> "Free", v |-> FmtGB(p.usage.free)],
       [k |-> "Usage %", v |-> UsagePercent(p.usage)] >>

RECURSIVE disk_loop(_, _)
disk_loop(parts, disk_info) ==
    IF parts = <<>> THEN Return(disk_info)
    ELSE LET p == Head(parts) IN
         CASE p.usage.kind = "PermissionError" ->
                disk_loop(Tail(parts), DictSet(disk_info, p.device, PermissionDenied))
           [] p.usage.kind = "OSError" -> Raise("OSError")
           [] p.usage.kind = "ok" /\ p.usage.total = 0 -> Raise("ZeroDivisionError")
           [] OTHER ->
                disk_loop(Tail(parts), DictSet(disk_info, p.device, DiskEntry(p)))

get_disk_info(parts) == disk_loop(parts, <<>>)

OnlyPermissionErrors(parts) ==
    \A i \in 1..Len(parts) : parts[i].usage.kind \in {"ok", "PermissionError"}

PermissionErrors(parts) ==
    {i \in 1..Len(parts) : parts[i].usage.kind = "PermissionError"}

IsUsageEntry(e) ==
    /\ {"Total Size", "Used", "Free", "Usage %"} \subseteq Keys(e)
    /\ \E u \in {x \in UsageOutcomes : x.kind = "ok" /\ x.total > 0} :
          /\ Get(e, "Used") = FmtGB(u.used)
          /\ Get(e, "Total Size") = FmtGB(u.total)
          /\ Get(e, "Usage %").unit = "%"
          \* |Usage % - used/total*100| <= 0.05, in tenths of a percent
          /\ 2 * (Get(e, "Usage %").num * u.total - u.used * 1000) <= u.total
          /\ 2 * (u.used * 1000 - Get(e, "Usage %").num * u.total) <= u.total

\* ------------------------------------------------------------------------
\* C1: get_disk_info returns one entry per partition: for N partitions of
\* which exactly K usage queries raise a permission error and the others
\* succeed, the call returns normally with N entries, exactly K of them the
\* permission-denied sentinel and N-K of them usage entries whose "Usage %"
\* is Used/Total*100 rounded to one decimal.
C1_OneEntryPerPartition ==
    (probe = "disk" /\ phase = "called" /\ OnlyPermissionErrors(host)) =>
        /\ Returned(result)
        /\ Len(result.ret) = Len(host)
        /\ Cardinality({i \in 1..Len(result.ret) : result.ret[i].v = PermissionDenied})
             = Cardinality(PermissionErrors(host))
        /\ \A i \in 1..Len(result.ret) :
             result.ret[i].v # PermissionDenied => IsUsageEntry(result.ret[i].v)

(***************************************************************************)
(* check_system_health                                                     *)
(***************************************************************************)
CPU_THRESHOLD == 80

MEMORY_THRESHOLD == 85

DISK_THRESHOLD == 90

\* a percentage p in the unit of the model, tenths of a percent
Tenths(p) == p * 10

\* psutil.cpu_percent(interval=1) and psutil.virtual_memory().percent
CpuSamples == {105, 800, 801, 1000}

MemSamples == {500, 850, 851, 900}

HealthHosts == [cpu : CpuSamples, mem : MemSamples, parts : PartitionLists]

\* mutant: the comparison is not strict
CpuTooHigh_AtLeast(cpu_usage) == cpu_usage >= Tenths(CPU_THRESHOLD)

CpuTooHigh(cpu_usage) == cpu_usage > Tenths(CPU_THRESHOLD)

MemoryTooHigh(percent) == percent > Tenths(MEMORY_THRESHOLD)

\* usage_percent = (usage.used / usage.total) * 100; usage_percent > 90
DiskTooFull(u) == u.used * 100 > DISK_THRESHOLD * u.total

DiskWarningKey(device) == "disk_warning_" \o device

HealthBase ==
    << [k |-> "timestamp", v |-> Text("%Y-%m-%d %H:%M:%S")],
       [k |-> "uptime", v |-> Text("now - boot_time")],
       [k |-> "boot_time", v |-> Text("%Y-%m-%d %H:%M:%S")] >>

HighCpu(cpu_usage) == [text |-> "High CPU usage", pct |-> cpu_usage]

HighMemory(percent) == [text |-> "High memory usage", pct |-> percent]

LowDiskSpace(u) == [text |-> "Low disk space", pct |-> UsagePercent(u)]

RECURSIVE health_disk_loop(_, _)
health_disk_loop(parts, health_status) ==
    IF parts = <<>> THEN Return(health_status)
    ELSE LET p == Head(parts) IN
         CASE p.usage.kind = "PermissionError" ->
                health_disk_loop(Tail(parts), health_status)
           [] p.usage.kind = "OSError" -> Raise("OSError")
           [] p.usage.kind = "ok" /\ p.usage.total = 0 -> Raise("ZeroDivisionError")
           [] OTHER ->
                health_disk_loop(Tail(parts),
                    IF DiskTooFull(p.usage)
                    THEN DictSet(health_status, DiskWarningKey(p.device),
                                 LowDiskSpace(p.usage))
                    ELSE health_status)

check_system_health(h) ==
    LET s1 == IF CpuTooHigh(h.cpu)
              THEN DictSet(HealthBase, "cpu_warning", HighCpu(h.cpu))
              ELSE HealthBase
        s2 == IF MemoryTooHigh(h.mem)
              THEN DictSet(s1, "memory_warning", HighMemory(h.mem))
              ELSE s1
    IN  health_disk_loop(h.parts, s2)

\* ------------------------------------------------------------------------
\* C2: whenever check_system_health returns, its result has the key
\* 'cpu_warning' exactly when the sampled CPU utilization is above 80 and
\* the key 'memory_warning' exactly when the memory utilization is above 85
\* (strictly); a present key carries the warning with the percentage, and
\* each check is decided by its own metric alone.
C2_WarningsIffAboveThreshold ==
    (probe = "health" /\ phase = "called" /\ Returned(result)) =>
        /\ "cpu_warning" \in Keys(result.ret) <=> host.cpu > 800
        /\ "memory_warning" \in Keys(result.ret) <=> host.mem > 850
        /\ "cpu_warning" \in Keys(result.ret) =>
              Get(result.ret, "cpu_warning") = HighCpu(host.cpu)
        /\ "memory_warning" \in Keys(result.ret) =>
              Get(result.ret, "memory_warning") = HighMemory(host.mem)

\* CPU exactly at 80% and memory above 85%: a memory warning and no CPU warning
C2_Witness ==
    /\ probe = "health" /\ phase = "called" /\ Returned(result)
    /\ host.cpu = 800 /\ host.mem = 851
    /\ "memory_warning" \in Keys(result.ret)
    /\ "cpu_warning" \notin Keys(result.ret)

Readable(p) == p.usage.kind = "ok"

Offending(parts) ==
    {i \in 1..Len(parts) :
        /\ Readable(parts[i]) /\ parts[i].usage.total > 0
        /\ parts[i].usage.used * 100 > 90 * parts[i].usage.total}

DiskWarningKeys(health_status) ==
    Keys(health_status)
        \ {"timestamp", "uptime", "boot_time", "cpu_warning", "memory_warning"}

\* ------------------------------------------------------------------------
\* C3: check_system_health gives every readable partition above 90% its own
\* warning entry keyed 'disk_warning_<device>', gives none to a readable
\* partition at or below 90%, skips a partition whose usage query raises a
\* permission error without warning or error, and still checks the
\* partitions after it: the number of disk warning entries equals the number
\* of offending readable partitions.
C3_OneWarningPerOffendingPartition ==
    (probe = "health" /\ phase = "called" /\ OnlyPermissionErrors(host.parts)) =>
        /\ Returned(result)
        /\ \A i \in Offending(host.parts) :
              DiskWarningKey(host.parts[i].device) \in Keys(result.ret)
        /\ Cardinality(DiskWarningKeys(result.ret))
              = Cardinality(Offending(host.parts))

(***************************************************************************)
(* get_temperature_info.  The host either has no sensors_temperatures      *)
(* support (the call raises) or reports a dict of sensor groups.  Readings *)
(* are in hundredths of a degree.  An entry whose current value is None    *)
(* stands for any reading whose formatting raises.                         *)
(***************************************************************************)
SensorNames == {"coretemp", "acpitz"}

SensorEntries ==
    { [label |-> "Core 0", current |-> Some(4527), high |-> Some(8000), critical |-> Some(10000)],
      [label |-> "", current |-> Some(3012), high |-> None, critical |-> None],
      [label |-> "Core 0", current |-> Some(4527), high |-> Some(0), critical |-> Some(10000)],
      [label |-> "temp1", current |-> Some(3012), high |-> Some(8000), critical |-> Some(0)],
      [label |-> "temp1", current |-> None, high |-> None, critical |-> None] }

\* dicts with distinct keys taken from K, in any order, values from V
DictsOver(K, V) ==
    UNION { { d \in [1..n -> [k : K, v : V]] :
                \A i, j \in 1..n : d[i].k = d[j].k => i = j } :
            n \in 0..Cardinality(K) }

TempHosts ==
    { [kind |-> "unsupported"] }
    \cup { [kind |-> "ok", groups |-> g] :
             g \in DictsOver(SensorNames, SeqsUpTo(SensorEntries, MaxReadings)) }

NotAvailable == Dict1("Status", Text("Temperature monitoring not available"))

NoSensors == Dict1("Status", Text("No temperature sensors detected"))

\* f"{x:.1f}°C"; formatting None raises
FmtC(x) == Fmt(x.some, 100, 1, "°C")

\* f"{entry.high:.1f}°C" if entry.high else "N/A"
Threshold(x) == IF Truthy(x) THEN FmtC(x) ELSE NA

TempData(entry) ==
    [label |-> IF entry.label # "" THEN Text(entry.label) ELSE NA,
     current |-> FmtC(entry.current),
     high |-> Threshold(entry.high),
     critical |-> Threshold(entry.critical)]

RECURSIVE temp_entries(_, _)
temp_entries(entries, acc) ==
    IF entries = <<>> THEN Return(acc)
    ELSE IF IsNone(Head(entries).current) THEN Raise("TypeError")
    ELSE temp_entries(Tail(entries), Append(acc, TempData(Head(entries))))

RECURSIVE temp_loop(_, _)
temp_loop(groups, temp_info) ==
    IF groups = <<>> THEN Return(temp_info)
    ELSE LET r == temp_entries(Head(groups).v, <<>>) IN
         IF Raised(r) THEN r
         ELSE temp_loop(Tail(groups), DictSet(temp_info, Head(groups).k, r.ret))

\* the body of the try block
temp_try(t) ==
    IF t.kind = "unsupported" THEN Raise("AttributeError")
    ELSE LET r == temp_loop(t.groups, <<>>) IN
         IF Raised(r) THEN r
         ELSE Return(IF r.ret # <<>> THEN r.ret ELSE NoSensors)

\* mutant: only the missing sensor support is caught, not a failure while
\* the readings are formatted
get_temperature_info_uncaught(t) ==
    IF t.kind = "unsupported" THEN Return(NotAvailable) ELSE temp_try(t)

get_temperature_info(t) ==
    LET r == temp_try(t) IN IF Raised(r) THEN Return(NotAvailable) ELSE r

TempFails(t) ==
    \/ t.kind = "unsupported"
    \/ \E i \in 1..Len(t.groups) : \E j \in 1..Len(t.groups[i].v) :
          IsNone(t.groups[i].v[j].current)

\* ------------------------------------------------------------------------
\* C8: get_temperature_info never raises; with zero sensor groups it returns
\* exactly the "No temperature sensors detected" sentinel; when the query is
\* unsupported or fails anywhere, also part-way through the readings, it
\* returns exactly the "Temperature monitoring not available" sentinel with
\* no partial entries; otherwise it returns one entry per sensor group
\* holding one reading per sensor of the group.
C8_TemperatureNeverRaises ==
    (probe = "temperature" /\ phase = "called") =>
        /\ Returned(result)
        /\ TempFails(host) => result.ret = NotAvailable
        /\ (~TempFails(host) /\ host.groups = <<>>) => result.ret = NoSensors
        /\ (~TempFails(host) /\ host.groups # <<>>) =>
              /\ Len(result.ret) = Len(host.groups)
              /\ \A i \in 1..Len(host.groups) :
                    /\ result.ret[i].k = host.groups[i].k
                    /\ Len(result.ret[i].v) = Len(host.groups[i].v)

\* a failure in the second group, after the first was formatted completely
C8_Witness ==
    /\ probe = "temperature" /\ phase = "called"
    /\ host.kind = "ok" /\ Len(host.groups) = 2
    /\ Len(host.groups[1].v) > 0
    /\ \A j \in 1..Len(host.groups[1].v) : ~IsNone(host.groups[1].v[j].current)
    /\ \E j \in 1..Len(host.groups[2].v) : IsNone(host.groups[2].v[j].current)
    /\ result = Return(NotAvailable)

\* ------------------------------------------------------------------------
\* C10: in every reading get_temperature_info returns, 'high' is "N/A"
\* exactly when the sensor reports no high threshold and 'critical' is "N/A"
\* exactly when it reports no critical threshold, a reported 0 included, and
\* 'label' is "N/A" exactly when the hardware provides no label.
C10_NAIffNotReported ==
    (probe = "temperature" /\ phase = "called" /\ ~TempFails(host)) =>
        \A i \in 1..Len(host.groups) : \A j \in 1..Len(host.groups[i].v) :
            LET entry == host.groups[i].v[j]
                data == result.ret[i].v[j]
            IN  /\ data.high = NA <=> IsNone(entry.high)
                /\ data.critical = NA <=> IsNone(entry.critical)
                /\ data.label = NA <=> entry.label = ""

(***************************************************************************)
(* get_network_info.  psutil.net_if_addrs() and psutil.net_if_stats().     *)
(***************************************************************************)
InterfaceNames == {"lo", "eth0"}

Addresses ==
    { [family |-> "AF_INET", address |-> "192.168.0.2", netmask |-> Some("255.255.255.0")],
      [family |-> "AF_PACKET", address |-> "aa:bb:cc:dd:ee:ff", netmask |-> None] }

IfStats ==
    { [isup |-> TRUE, speed |-> 1000], [isup |-> TRUE, speed |-> 0],
      [isup |-> FALSE, speed |-> 0] }

NetHosts ==
    [interfaces : DictsOver(InterfaceNames, SeqsUpTo(Addresses, MaxAddrs)),
     stats : DictsOver(InterfaceNames, IfStats)]

\* str(address.family)
StrFamily(family) == "AddressFamily." \o family

AddressData(a) ==
    [family |-> StrFamily(a.family), address |-> a.address, netmask |-> a.netmask]

RECURSIVE AddressList(_)
AddressList(addrs) ==
    IF addrs = <<>> THEN <<>>
    ELSE <<AddressData(Head(addrs))>> \o AddressList(Tail(addrs))

\* mutant: a speed of zero is formatted
Speed_NonNegative(stats, name) ==
    IF name \in Keys(stats) /\ Get(stats, name).speed >= 0
    THEN [num |-> Get(stats, name).speed, dec |-> 0, unit |-> " Mbps"]
    ELSE NA

\* f"{speed} Mbps" if the interface is in stats and its speed > 0 else "N/A"
Speed(stats, name) ==
    IF name \in Keys(stats) /\ Get(stats, name).speed > 0
    THEN [num |-> Get(stats, name).speed, dec |-> 0, unit |-> " Mbps"]
    ELSE NA

IsUp(stats, name) == IF name \in Keys(stats) THEN Get(stats, name).isup ELSE FALSE

RECURSIVE net_loop(_, _, _)
net_loop(interfaces, stats, network_info) ==
    IF interfaces = <<>> THEN Return(network_info)
    ELSE LET name == Head(interfaces).k IN
         net_loop(Tail(interfaces), stats,
             DictSet(network_info, name,
                 [addresses |-> AddressList(Head(interfaces).v),
                  is_up |-> IsUp(stats, name),
                  speed |-> Speed(stats, name)]))

get_network_info(h) == net_loop(h.interfaces, h.stats, <<>>)

(***************************************************************************)
(* get_system_info, get_cpu_info, get_memory_info                          *)
(***************************************************************************)
SystemHosts ==
    [system : {"Linux", "Windows", "Darwin"}, processor : {"", "x86_64"},
     architecture : {"64bit", "32bit"}]

get_system_info(h) ==
    Return(<< [k |-> "System", v |-> Text(h.system)],
              [k |-> "Node Name", v |-> Text("node")],
              [k |-> "Release", v |-> Text("release")],
              [k |-> "Version", v |-> Text("version")],
              [k |-> "Machine", v |-> Text("machine")],
              [k |-> "Processor", v |-> Text(h.processor)],
              [k |-> "Architecture", v |-> Text(h.architecture)],
              [k |-> "Python Version", v |-> Text("3.x")] >>)

\* psutil.cpu_freq(): None, a reading in kHz, or an exception on a host
\* where the call is not implemented; getloadavg: absent from psutil or a
\* load in hundredths
CpuHosts ==
    [physical : {None, Some(4)}, logical : {Some(4), Some(8)},
     freq : { [kind |-> "none"], [kind |-> "raises"],
              [kind |-> "ok", max |-> 3400004, current |-> 1799996] },
     percent : CpuSamples,
     loadavg : {None, Some(152)}]

\* f"{x:.2f} MHz" if psutil.cpu_freq() else "N/A"
FmtMHz(freq, x) == IF freq.kind = "ok" THEN Fmt(x, 1000, 2, " MHz") ELSE NA

get_cpu_info(h) ==
    IF h.freq.kind = "raises" THEN Raise("NotImplementedError")
    ELSE Return(
        << [k |-> "Physical Cores", v |-> h.physical],
           [k |-> "Total Cores", v |-> h.logical],
           [k |-> "Max Frequency",
            v |-> FmtMHz(h.freq, IF h.freq.kind = "ok" THEN h.freq.max ELSE 0)],
           [k |-> "Current Frequency",
            v |-> FmtMHz(h.freq, IF h.freq.kind = "ok" THEN h.freq.current ELSE 0)],
           [k |-> "CPU Usage", v |-> Fmt(h.percent, 10, 1, "%")],
           [k |-> "Load Average (1min)",
            v |-> IF IsNone(h.loadavg) THEN NA ELSE h.loadavg] >>)

\* sizes in MiB, percentages in tenths of a percent
MemHosts ==
    [total : {16 * GIB}, available : {0, 5 * GIB + 300}, percent : MemSamples,
     swap_total : {0, 2 * GIB}, swap_percent : {0, 125}]

get_memory_info(h) ==
    Return(<< [k |-> "Total RAM", v |-> FmtGB(h.total)],
              [k |-> "Available RAM", v |-> FmtGB(h.available)],
              [k |-> "RAM Usage", v |-> Fmt(h.percent, 10, 1, "%")],
              [k |-> "Total Swap", v |-> FmtGB(h.swap_total)],
              [k |-> "Swap Usage", v |-> Fmt(h.swap_percent, 10, 1, "%")] >>)

(***************************************************************************)
(* get_bios_info.  On Windows the host is what running wmic does: it is    *)
(* not found, it times out, or it ends with a return code and lines of     *)
(* output; a line either has no '=' (blank lines included) or splits at    *)
(* its first '=' into a key and a value.  On Linux the host is, for each   *)
(* of the three DMI files, its content or None when it cannot be read.     *)
(***************************************************************************)
\* str.strip(): wmic ends its lines with a carriage return, the DMI files
\* end with a newline
Strip(str) ==
    CASE str \in {"", "\r", " \r", "\n"} -> ""
      [] str = "A.1\r" -> "A.1"
      [] str = "F.20\n" -> "F.20"
      [] str = "ACME\n" -> "ACME"
      [] OTHER -> str

WmicLines ==
    { [eq |-> FALSE],
      [eq |-> TRUE, key |-> "Name", value |-> "A.1\r"],
      [eq |-> TRUE, key |-> "SerialNumber", value |-> "\r"],
      [eq |-> TRUE, key |-> "Version", value |-> "A.1\r"] }

NoWmic == [kind |-> "unused"]

NoDmi == [bios_version |-> None, board_name |-> None, board_vendor |-> None]

DmiContents == {None, Some("F.20\n"), Some("\n")}

BiosHosts ==
    { [system |-> "Windows", wmic |-> w, dmi |-> NoDmi] :
        w \in { [kind |-> "FileNotFoundError"], [kind |-> "TimeoutExpired"] }
              \cup [kind : {"done"}, returncode : {0, 1},
                    lines : SeqsUpTo(WmicLines, MaxLines)] }
    \cup { [system |-> "Linux", wmic |-> NoWmic, dmi |-> d] :
             d \in [bios_version : DmiContents, board_name : {None, Some("ACME\n")},
                    board_vendor : {None, Some("ACME\n")}] }
    \cup { [system |-> "Darwin", wmic |-> NoWmic, dmi |-> NoDmi] }

NotAccessible == Dict1("Status", Text("BIOS information not accessible"))

RECURSIVE wmic_lines(_, _)
wmic_lines(lines, bios_info) ==
    IF lines = <<>> THEN bios_info
    ELSE LET line == Head(lines) IN
         wmic_lines(Tail(lines),
             IF line.eq /\ Strip(line.value) # ""
             THEN DictSet(bios_info, line.key, Text(Strip(line.value)))
             ELSE bios_info)

bios_windows(w) ==
    IF w.kind # "done" THEN Raise(w.kind)
    ELSE Return(IF w.returncode = 0 THEN wmic_lines(w.lines, <<>>) ELSE <<>>)

\* mutant: an unreadable file leaves a sentinel under its label
dmi_read_sentinel(bios_info, label, content) ==
    DictSet(bios_info, label,
            IF IsNone(content) THEN NA ELSE Text(Strip(content.some)))

\* with open(path) as f: bios_info[label] = f.read().strip(), except: pass
dmi_read(bios_info, label, content) ==
    IF IsNone(content) THEN bios_info
    ELSE DictSet(bios_info, label, Text(Strip(content.some)))

bios_linux(d) ==
    Return(dmi_read(dmi_read(dmi_read(<<>>, "BIOS Version", d.bios_version),
                             "Board Name", d.board_name),
                    "Board Vendor", d.board_vendor))

\* the body of the outer try block
bios_try(h) ==
    CASE h.system = "Windows" -> bios_windows(h.wmic)
      [] h.system = "Linux" -> bios_linux(h.dmi)
      [] OTHER -> Return(<<>>)

BiosError(e) == [text |-> "Could not retrieve BIOS info", exc |-> e]

\* mutant: the empty mapping is returned as it is
bios_or_empty(bios_info) == bios_info

\* return bios_info if bios_info else {"Status": ...}
bios_or_sentinel(bios_info) == IF bios_info # <<>> THEN bios_info ELSE NotAccessible

get_bios_info(h) ==
    LET r == bios_try(h)
        bios_info == IF Raised(r) THEN Dict1("Error", BiosError(r.exc)) ELSE r.ret
    IN  Return(bios_or_sentinel(bios_info))

NothingCollected(h) ==
    CASE h.system = "Windows" ->
            /\ h.wmic.kind = "done"
            /\ \/ h.wmic.returncode # 0
               \/ \A i \in 1..Len(h.wmic.lines) :
                     h.wmic.lines[i].eq => h.wmic.lines[i].value \in {"", "\r"}
      [] h.system = "Linux" ->
            IsNone(h.dmi.bios_version) /\ IsNone(h.dmi.board_name)
                /\ IsNone(h.dmi.board_vendor)
      [] OTHER -> TRUE

ToolFails(h) ==
    h.system = "Windows" /\ h.wmic.kind \in {"FileNotFoundError", "TimeoutExpired"}

\* ------------------------------------------------------------------------
\* C7: get_bios_info never raises and never returns an empty mapping; on a
\* platform that is neither Windows nor Linux, or whenever nothing was
\* collected (the tool returned non-zero or no non-empty value, all three
\* pseudo-files unreadable), the result is exactly the "BIOS information not
\* accessible" sentinel; when the tool invocation fails (not found, timeout)
\* the result is a single 'Error' entry carrying the description.
C7_BiosNeverRaisesNorEmpty ==
    (probe = "bios" /\ phase = "called") =>
        /\ Returned(result)
        /\ result.ret # <<>>
        /\ NothingCollected(host) => result.ret = NotAccessible
        /\ ToolFails(host) =>
              /\ Keys(result.ret) = {"Error"} /\ Len(result.ret) = 1
              /\ Get(result.ret, "Error").exc = host.wmic.kind
        /\ (~NothingCollected(host) /\ ~ToolFails(host)) =>
              "Status" \notin Keys(result.ret) /\ "Error" \notin Keys(result.ret)

\* wmic ran and ended with a non-zero return code although it printed values
C7_Witness ==
    /\ probe = "bios" /\ phase = "called"
    /\ host.system = "Windows" /\ host.wmic.kind = "done"
    /\ host.wmic.returncode = 1
    /\ \E i \in 1..Len(host.wmic.lines) :
          host.wmic.lines[i].eq /\ host.wmic.lines[i].value = "A.1\r"
    /\ result = Return(NotAccessible)

(***************************************************************************)
(* The report: what main() prints for each section.  A printed line is     *)
(* [line |-> text] for a literal line and [indent, key, val] for a         *)
(* "key: value" row.                                                       *)
(***************************************************************************)
Line(text) == [line |-> text]

Blank == Line("")

Row(indent, key, val) == [indent |-> indent, key |-> key, val |-> val]

\* for key, value in info.items(): print(f"{key}: {value}")
RenderFlat(d, indent) == [i \in 1..Len(d) |-> Row(indent, d[i].k, d[i].v)]

RECURSIVE RenderReadings(_)
RenderReadings(readings) ==
    IF readings = <<>> THEN <<>>
    ELSE LET r == Head(readings) IN
         <<Row(1, r.label.text, [current |-> r.current, high |-> r.high,
                                  critical |-> r.critical])>>
             \o RenderReadings(Tail(readings))

RECURSIVE RenderSensors(_)
RenderSensors(temp_info) ==
    IF temp_info = <<>> THEN <<>>
    ELSE <<Line(Head(temp_info).k \o ":")>> \o RenderReadings(Head(temp_info).v)
             \o RenderSensors(Tail(temp_info))

RenderTemperature(temp_info) ==
    IF "Status" \in Keys(temp_info)
    THEN <<Line(Get(temp_info, "Status").text)>>
    ELSE RenderSensors(temp_info)

RECURSIVE RenderDisk(_)
RenderDisk(disk_info) ==
    IF disk_info = <<>> THEN <<>>
    ELSE <<Line(Head(disk_info).k \o ":")>> \o RenderFlat(Head(disk_info).v, 1)
             \o <<Blank>> \o RenderDisk(Tail(disk_info))

ADDRESS_LIMIT == 2

\* info['addresses'][:2]
Shown(addresses) ==
    SubSeq(addresses, 1, IF Len(addresses) < ADDRESS_LIMIT THEN Len(addresses)
                         ELSE ADDRESS_LIMIT)

RenderAddresses(addresses) ==
    [i \in 1..Len(addresses) |->
        Row(1, addresses[i].family, Text(addresses[i].address))]

RECURSIVE RenderNetwork(_)
RenderNetwork(network_info) ==
    IF network_info = <<>> THEN <<>>
    ELSE LET info == Head(network_info).v IN
         << Line(Head(network_info).k \o ":"),
            Row(1, "Status", Text(IF info.is_up THEN "UP" ELSE "DOWN")),
            Row(1, "Speed", info.speed) >>
             \o RenderAddresses(Shown(info.addresses))
             \o <<Blank>> \o RenderNetwork(Tail(network_info))

\* 'warning' in key.lower(): of the keys check_system_health produces, all
\* but the three it starts with
IsWarningKey(key) == key \notin {"timestamp", "uptime", "boot_time"}

\* key.replace('_', ' ').title(), with the warning glyph before a warning
RenderHealth(health) ==
    [i \in 1..Len(health) |->
        [indent |-> 0, key |-> health[i].k, val |-> health[i].v, titled |-> TRUE,
         glyph |-> IsWarningKey(health[i].k)]]

Sections ==
    <<"system", "bios", "cpu", "memory", "temperature", "disk", "network", "health">>

Header(section) ==
    CASE section = "system" -> "SYSTEM INFORMATION:"
      [] section = "bios" -> "BIOS/MOTHERBOARD INFORMATION:"
      [] section = "cpu" -> "CPU STATUS:"
      [] section = "memory" -> "MEMORY STATUS:"
      [] section = "temperature" -> "TEMPERATURE SENSORS:"
      [] section = "disk" -> "DISK STATUS:"
      [] section = "network" -> "NETWORK INTERFACES:"
      [] section = "health" -> "SYSTEM HEALTH CHECK:"

Rule == Line("------------------------------")

\* the lines a section prints after its header and rule, once its collector
\* has returned `value`
RenderBody(section, value) ==
    CASE section \in {"system", "bios", "cpu", "memory"} ->
            RenderFlat(value, 0) \o <<Blank>>
      [] section = "temperature" -> RenderTemperature(value) \o <<Blank>>
      [] section = "disk" -> RenderDisk(value)
      [] section = "network" -> RenderNetwork(value)
      [] section = "health" -> RenderHealth(value) \o <<Blank>>

AddressRowKeys == {StrFamily(a.family) : a \in Addresses}

IsAddressRow(l) == "key" \in DOMAIN l /\ l.key \in AddressRowKeys

RECURSIVE FirstTwoOfEach(_)
FirstTwoOfEach(interfaces) ==
    IF interfaces = <<>> THEN <<>>
    ELSE LET a == Head(interfaces).v IN
         [i \in 1..(IF Len(a) < 2 THEN Len(a) ELSE 2) |-> a[i].address]
             \o FirstTwoOfEach(Tail(interfaces))

\* ------------------------------------------------------------------------
\* C9: get_network_info returns one entry per interface of the addresses
\* source, holding every address of the interface in source order, 'speed'
\* "N/A" exactly when the interface has no stats entry or a speed of zero or
\* less and "<speed> Mbps" otherwise, and 'is_up' False without a stats
\* entry; a missing stats entry never raises.  The renderer prints at most
\* the first 2 addresses of each interface.
C9_NetworkEntries ==
    (probe = "network" /\ phase # "ready") =>
        /\ Returned(result)
        /\ Len(result.ret) = Len(host.interfaces)
        /\ \A i \in 1..Len(host.interfaces) :
              LET name == host.interfaces[i].k
                  addrs == host.interfaces[i].v
                  info == result.ret[i].v
                  nostats == \A j \in 1..Len(host.stats) : host.stats[j].k # name
              IN  /\ result.ret[i].k = name
                  /\ Len(info.addresses) = Len(addrs)
                  /\ \A j \in 1..Len(addrs) :
                        /\ info.addresses[j].address = addrs[j].address
                        /\ info.addresses[j].netmask = addrs[j].netmask
                        /\ info.addresses[j].family = "AddressFamily." \o addrs[j].family
                  /\ info.speed = NA <=>
                        (nostats \/ \E j \in 1..Len(host.stats) :
                            host.stats[j].k = name /\ host.stats[j].v.speed <= 0)
                  /\ info.speed # NA =>
                        /\ info.speed.unit = " Mbps"
                        /\ \E j \in 1..Len(host.stats) :
                              host.stats[j].k = name
                                  /\ host.stats[j].v.speed = info.speed.num
                  /\ nostats => info.is_up = FALSE
        /\ phase = "rendered" =>
              LET rows == SelectSeq(rendered, IsAddressRow) IN
              /\ Len(rows) = Len(FirstTwoOfEach(host.interfaces))
              /\ \A i \in 1..Len(rows) :
                    rows[i].val.text = FirstTwoOfEach(host.interfaces)[i]

\* an interface with three addresses and no stats entry, rendered
C9_Witness ==
    /\ probe = "network" /\ phase = "rendered"
    /\ Len(host.interfaces) = 2 /\ host.stats = <<>>
    /\ Len(host.interfaces[1].v) = 3
    /\ host.interfaces[1].v[1].family # host.interfaces[1].v[3].family
    /\ Len(result.ret[1].v.addresses) = 3
    /\ result.ret[1].v.speed = NA
    /\ Len(SelectSeq(rendered, IsAddressRow)) = 2 + Len(Shown(host.interfaces[2].v))

SystemLabels ==
    {"System", "Node Name", "Release", "Version", "Machine", "Processor",
     "Architecture", "Python Version"}

CpuLabels ==
    {"Physical Cores", "Total Cores", "Max Frequency", "Current Frequency",
     "CPU Usage", "Load Average (1min)"}

MemoryLabels == {"Total RAM", "Available RAM", "RAM Usage", "Total Swap", "Swap Usage"}

DmiLabels == {"BIOS Version", "Board Name", "Board Vendor"}

DiskLabels == {"Mountpoint", "File System", "Total Size", "Used", "Free", "Usage %"}

FixedLabels ==
    CASE probe = "system" -> SystemLabels
      [] probe = "cpu" -> CpuLabels
      [] probe = "memory" -> MemoryLabels
      [] probe = "bios" /\ host.system = "Linux" -> DmiLabels
      [] OTHER -> {}

\* ------------------------------------------------------------------------
\* C6 (as stated): every label a collector advertises is a key of the
\* mapping it returns, also when the host data behind it is absent.
C6_EveryLabelPresent ==
    (phase = "called" /\ Returned(result)) => FixedLabels \subseteq Keys(result.ret)

DmiContent(h, label) ==
    CASE label = "BIOS Version" -> h.dmi.bios_version
      [] label = "Board Name" -> h.dmi.board_name
      [] label = "Board Vendor" -> h.dmi.board_vendor

\* C6 (amended): whenever they return, the system, CPU and memory collectors
\* return exactly their advertised labels, the CPU frequencies and the load
\* average being "N/A" when the host has none; every temperature reading has
\* its four fields and every network entry its three; a disk entry is either
\* the six usage labels or the single "Permission denied" sentinel.  The BIOS
\* collector on Linux is the exception: a label is a key of its result
\* exactly when the label's pseudo-file could be read, and with no file
\* readable the result is the "not accessible" sentinel alone.
C6_LabelsPresentExceptBios ==
    (phase = "called" /\ Returned(result)) =>
        /\ probe \in {"system", "cpu", "memory"} => Keys(result.ret) = FixedLabels
        /\ probe = "cpu" =>
              /\ host.freq.kind = "none" =>
                    /\ Get(result.ret, "Max Frequency") = NA
                    /\ Get(result.ret, "Current Frequency") = NA
              /\ IsNone(host.loadavg) => Get(result.ret, "Load Average (1min)") = NA
        /\ (probe = "temperature" /\ "Status" \notin Keys(result.ret)) =>
              \A i \in 1..Len(result.ret) : \A j \in 1..Len(result.ret[i].v) :
                  DOMAIN result.ret[i].v[j] = {"label", "current", "high", "critical"}
        /\ probe = "network" =>
              \A i \in 1..Len(result.ret) :
                  DOMAIN result.ret[i].v = {"addresses", "is_up", "speed"}
        /\ probe = "disk" =>
              \A i \in 1..Len(result.ret) :
                  \/ Keys(result.ret[i].v) = DiskLabels
                  \/ result.ret[i].v = PermissionDenied
        /\ (probe = "bios" /\ host.system = "Linux") =>
              /\ \A label \in DmiLabels :
                    label \in Keys(result.ret) <=> ~IsNone(DmiContent(host, label))
              /\ (\A label \in DmiLabels : IsNone(DmiContent(host, label)))
                    => result.ret = NotAccessible

\* the BIOS version file is unreadable and the board name file is not
C6_Witness ==
    /\ probe = "bios" /\ phase = "called" /\ host.system = "Linux"
    /\ IsNone(host.dmi.bios_version) /\ ~IsNone(host.dmi.board_name)
    /\ "Board Name" \in Keys(result.ret)
    /\ "BIOS Version" \notin Keys(result.ret)

(***************************************************************************)
(* main()                                                                  *)
(***************************************************************************)
Banner == Line("============================================================")

\* mutant: a section without rows prints no header
SectionLines_HeaderIfItems(section, value) ==
    IF RenderBody(section, value) = <<>> THEN <<>>
    ELSE <<Line(Header(section)), Rule>> \o RenderBody(section, value)

\* a section of the report: header, rule, then the collector's rows
SectionLines(section, value) ==
    <<Line(Header(section)), Rule>> \o RenderBody(section, value)

\* the section after `section`, "closing" after the last
NextSection(section) ==
    LET i == CHOOSE j \in 1..Len(Sections) : Sections[j] = section
    IN  IF i < Len(Sections) THEN Sections[i + 1] ELSE "closing"

(***************************************************************************)
(* Spec: one collector called on one host input                            *)
(***************************************************************************)
Idle == [idle |-> TRUE]

InitDisk == probe = "disk" /\ host \in PartitionLists

InitHealth == probe = "health" /\ host \in HealthHosts

InitTemp == probe = "temperature" /\ host \in TempHosts

InitNet == probe = "network" /\ host \in NetHosts

InitSystem == probe = "system" /\ host \in SystemHosts

InitCpu == probe = "cpu" /\ host \in CpuHosts

InitMemory == probe = "memory" /\ host \in MemHosts

InitBios == probe = "bios" /\ host \in BiosHosts

Init ==
    /\ \/ InitSystem
       \/ InitBios
       \/ InitCpu
       \/ InitMemory
       \/ InitTemp
       \/ InitDisk
       \/ InitNet
       \/ InitHealth
    /\ phase = "ready"
    /\ result = Idle
    /\ rendered = <<>>
    /\ pc = "idle"
    /\ out = <<>>

CallGetDiskInfo ==
    /\ probe = "disk" /\ phase = "ready"
    /\ result' = get_disk_info(host)
    /\ phase' = "called"
    /\ UNCHANGED <<probe, host, rendered, pc, out>>

CallCheckSystemHealth ==
    /\ probe = "health" /\ phase = "ready"
    /\ result' = check_system_health(host)
    /\ phase' = "called"
    /\ UNCHANGED <<probe, host, rendered, pc, out>>

CallGetTemperatureInfo ==
    /\ probe = "temperature" /\ phase = "ready"
    /\ result' = get_temperature_info(host)
    /\ phase' = "called"
    /\ UNCHANGED <<probe, host, rendered, pc, out>>

CallGetNetworkInfo ==
    /\ probe = "network" /\ phase = "ready"
    /\ result' = get_network_info(host)
    /\ phase' = "called"
    /\ UNCHANGED <<probe, host, rendered, pc, out>>

CallGetSystemInfo ==
    /\ probe = "system" /\ phase = "ready"
    /\ result' = get_system_info(host)
    /\ phase' = "called"
    /\ UNCHANGED <<probe, host, rendered, pc, out>>

CallGetBiosInfo ==
    /\ probe = "bios" /\ phase = "ready"
    /\ result' = get_bios_info(host)
    /\ phase' = "called"
    /\ UNCHANGED <<probe, host, rendered, pc, out>>

CallGetCpuInfo ==
    /\ probe = "cpu" /\ phase = "ready"
    /\ result' = get_cpu_info(host)
    /\ phase' = "called"
    /\ UNCHANGED <<probe, host, rendered, pc, out>>

CallGetMemoryInfo ==
    /\ probe = "memory" /\ phase = "ready"
    /\ result' = get_memory_info(host)
    /\ phase' = "called"
    /\ UNCHANGED <<probe, host, rendered, pc, out>>

\* the report section of the collector that was called
Render ==
    /\ phase = "called" /\ Returned(result)
    /\ rendered' = SectionLines(probe, result.ret)
    /\ phase' = "rendered"
    /\ UNCHANGED <<probe, host, result, pc, out>>

Next ==
    \/ Render
    \/ CallGetSystemInfo
    \/ CallGetBiosInfo
    \/ CallGetCpuInfo
    \/ CallGetMemoryInfo
    \/ CallGetDiskInfo
    \/ CallCheckSystemHealth
    \/ CallGetTemperatureInfo
    \/ CallGetNetworkInfo

Spec == Init /\ [][Next]_vars

(***************************************************************************)
(* SpecMain: the program.  The module's imports run first; main() then     *)
(* prints the banner and the eight sections, each collector reading the    *)
(* host when it is called; the __main__ block catches what main() raises.  *)
(***************************************************************************)
P_Ok == [device |-> "/dev/sda1", mountpoint |-> "/", fstype |-> "ext4",
         usage |-> Usage(20 * GIB, 19 * GIB)]

P_Denied == [device |-> "/dev/sdb1", mountpoint |-> "/data", fstype |-> "ext4",
             usage |-> [kind |-> "PermissionError"]]

P_Empty == [device |-> "/dev/sdb1", mountpoint |-> "/data", fstype |-> "ext4",
            usage |-> Usage(0, 0)]

P_Gone == [device |-> "/dev/sdb1", mountpoint |-> "/data", fstype |-> "ext4",
           usage |-> [kind |-> "OSError"]]

MainPartitionLists == {<<>>, <<P_Denied, P_Ok>>, <<P_Ok, P_Empty>>, <<P_Gone>>}

MainSystemHosts == {[system |-> "Linux", processor |-> "", architecture |-> "64bit"]}

MainBiosHosts ==
    { [system |-> "Linux", wmic |-> NoWmic,
       dmi |-> [bios_version |-> Some("F.20\n"), board_name |-> None,
                board_vendor |-> Some("ACME\n")]],
      [system |-> "Linux", wmic |-> NoWmic, dmi |-> NoDmi],
      [system |-> "Windows", wmic |-> [kind |-> "TimeoutExpired"], dmi |-> NoDmi] }

MainCpuHosts ==
    { [physical |-> Some(4), logical |-> Some(8), freq |-> f, percent |-> 105,
       loadavg |-> Some(152)] :
        f \in {[kind |-> "none"], [kind |-> "raises"]} }

MainMemHosts ==
    {[total |-> 16 * GIB, available |-> 5 * GIB + 300, percent |-> 500,
      swap_total |-> 0, swap_percent |-> 0]}

MainTempHosts ==
    { [kind |-> "unsupported"], [kind |-> "ok", groups |-> <<>>],
      [kind |-> "ok",
       groups |-> Dict1("coretemp",
           <<[label |-> "Core 0", current |-> Some(4527), high |-> Some(8000),
              critical |-> Some(10000)]>>)] }

MainNetHosts ==
    { [interfaces |-> <<>>, stats |-> <<>>],
      [interfaces |-> Dict1("eth0",
           [i \in 1..3 |-> [family |-> "AF_INET", address |-> "192.168.0.2",
                            netmask |-> Some("255.255.255.0")]]),
       stats |-> Dict1("eth0", [isup |-> TRUE, speed |-> 1000])] }

MainHealthHosts == [cpu : {105, 801}, mem : {500}, parts : MainPartitionLists]

InitMain ==
    /\ pc = "import"
    /\ out = <<>>
    /\ result = Idle
    /\ probe = "main" /\ host = Idle /\ phase = "ready" /\ rendered = <<>>

\* lines 1-6: `import psutil` raises ModuleNotFoundError when the module is
\* not installed; no try statement encloses the imports
Import ==
    /\ pc = "import"
    /\ \E installed \in BOOLEAN :
          IF installed
          THEN pc' = "main" /\ result' = result
          ELSE pc' = "traceback" /\ result' = Raise("ModuleNotFoundError")
    /\ UNCHANGED <<probe, host, phase, rendered, out>>

PrintBanner ==
    /\ pc = "main"
    /\ out' = <<Banner, Line("MOTHERBOARD & SYSTEM STATUS CHECK"), Banner,
                Line("Scan Time"), Blank>>
    /\ pc' = Sections[1]
    /\ UNCHANGED <<probe, host, phase, rendered, result>>

\* one section of main(): the header and rule are printed, the collector is
\* called (r is what it returned or raised), and its rows are printed unless
\* it raised
RunSection(section, r) ==
    /\ pc = section
    /\ result' = r
    /\ IF Raised(r)
       THEN /\ out' = out \o <<Line(Header(section)), Rule>>
            /\ pc' = "raised"
       ELSE /\ out' = out \o SectionLines(section, r.ret)
            /\ pc' = NextSection(section)
    /\ UNCHANGED <<probe, host, phase, rendered>>

SystemSection ==
    \E h \in MainSystemHosts : RunSection("system", get_system_info(h))

BiosSection ==
    \E h \in MainBiosHosts : RunSection("bios", get_bios_info(h))

CpuSection ==
    \E h \in MainCpuHosts : RunSection("cpu", get_cpu_info(h))

MemorySection ==
    \E h \in MainMemHosts : RunSection("memory", get_memory_info(h))

TemperatureSection ==
    \E h \in MainTempHosts : RunSection("temperature", get_temperature_info(h))

DiskSection ==
    \E h \in MainPartitionLists : RunSection("disk", get_disk_info(h))

NetworkSection ==
    \E h \in MainNetHosts : RunSection("network", get_network_info(h))

HealthSection ==
    \E h \in MainHealthHosts : RunSection("health", check_system_health(h))

PrintClosing ==
    /\ pc = "closing"
    /\ out' = out \o <<Banner, Line("SCAN COMPLETE"), Banner>>
    /\ pc' = "exit"
    /\ UNCHANGED <<probe, host, phase, rendered, result>>

Diagnostic(e) ==
    IF e = "ImportError"
    THEN << [line |-> "Missing required module", exc |-> e],
            Line("Install with: pip install psutil") >>
    ELSE << [line |-> "Error running system check", exc |-> e],
            Line("Make sure you're running with appropriate permissions.") >>

\* except ImportError / except Exception around main()
TopLevelExcept ==
    /\ pc = "raised"
    /\ out' = out \o Diagnostic(result.exc)
    /\ pc' = "exit"
    /\ UNCHANGED <<probe, host, phase, rendered, result>>

NextMain ==
    \/ Import
    \/ PrintBanner
    \/ SystemSection
    \/ BiosSection
    \/ CpuSection
    \/ MemorySection
    \/ TemperatureSection
    \/ DiskSection
    \/ NetworkSection
    \/ HealthSection
    \/ PrintClosing
    \/ TopLevelExcept

SpecMain == InitMain /\ [][NextMain]_vars

\* the run is over: "exit" is a normal end, "traceback" an uncaught exception
Terminated == pc \in {"exit", "traceback"}

Completed == pc = "exit" /\ ~Raised(result)

EndsWith(lines, tail) ==
    Len(lines) >= Len(tail)
        /\ SubSeq(lines, Len(lines) - Len(tail) + 1, Len(lines)) = tail

ExpectedHeaders ==
    << "SYSTEM INFORMATION:", "BIOS/MOTHERBOARD INFORMATION:", "CPU STATUS:",
       "MEMORY STATUS:", "TEMPERATURE SENSORS:", "DISK STATUS:",
       "NETWORK INTERFACES:", "SYSTEM HEALTH CHECK:" >>

IsHeaderLine(l) ==
    DOMAIN l = {"line"} /\ \E i \in 1..Len(ExpectedHeaders) : l.line = ExpectedHeaders[i]

HeadersOf(lines) ==
    LET h == SelectSeq(lines, IsHeaderLine) IN [i \in 1..Len(h) |-> h[i].line]

BetweenBanners(lines) ==
    /\ Len(lines) >= 6
    /\ SubSeq(lines, 1, 3) = <<Banner, Line("MOTHERBOARD & SYSTEM STATUS CHECK"), Banner>>
    /\ EndsWith(lines, <<Banner, Line("SCAN COMPLETE"), Banner>>)
    /\ \A i \in 4..(Len(lines) - 3) : lines[i] # Line("SCAN COMPLETE")

\* ------------------------------------------------------------------------
\* C4 (as stated): in every run of main() the output holds each of the 8
\* section headers exactly once, in the fixed order, between the title banner
\* and the closing SCAN COMPLETE banner.
C4_EveryRunHasAllHeaders ==
    pc = "exit" => (HeadersOf(out) = ExpectedHeaders /\ BetweenBanners(out))

\* C4 (amended): in every run the section headers printed so far are the
\* first headers of the fixed order, each once; a run of main() that reaches
\* the closing banner has printed all 8 between the title banner and the
\* closing banner, whatever the number of items in each section, zero
\* included; a run in which a collector raises stops right after that
\* collector's header and rule and prints no closing banner.
C4_HeadersArePrefixOfFixedOrder ==
    /\ Len(HeadersOf(out)) <= Len(ExpectedHeaders)
    /\ HeadersOf(out) = SubSeq(ExpectedHeaders, 1, Len(HeadersOf(out)))
    /\ pc = "closing" => HeadersOf(out) = ExpectedHeaders
    /\ Completed => (HeadersOf(out) = ExpectedHeaders /\ BetweenBanners(out))
    /\ pc = "raised" =>
          /\ HeadersOf(out) # <<>>
          /\ EndsWith(out, <<Line(HeadersOf(out)[Len(HeadersOf(out))]), Rule>>)
    /\ (pc = "exit" /\ Raised(result)) =>
          /\ ~BetweenBanners(out)
          /\ \A i \in 1..Len(out) : out[i] # Line("SCAN COMPLETE")

\* a completed run whose disk and network sections have no item at all
C4_Witness ==
    /\ Completed
    /\ \E i \in 1..Len(out) :
          /\ out[i] = Line("DISK STATUS:")
          /\ out[i + 2] = Line("NETWORK INTERFACES:")
          /\ out[i + 4] = Line("SYSTEM HEALTH CHECK:")

EndsWithDiagnostic(lines) ==
    /\ Len(lines) >= 2
    /\ lines[Len(lines) - 1].line \in {"Missing required module", "Error running system check"}
    /\ lines[Len(lines)].line \in {"Install with: pip install psutil",
                                   "Make sure you're running with appropriate permissions."}

\* ------------------------------------------------------------------------
\* C5: a missing metrics dependency at startup, like any exception a
\* collector raises, is caught at the top level, a diagnostic and a hint are
\* printed and the program ends normally: no exception escapes as a raw
\* stack trace, and every run ends with the closing banner or with the
\* diagnostic message.
C5_EveryRunEndsCleanly ==
    Terminated =>
        /\ pc = "exit"
        /\ EndsWith(out, <<Banner, Line("SCAN COMPLETE"), Banner>>)
              \/ EndsWithDiagnostic(out)

=============================================================================
